---- MODULE Spec2Model ----
(***************************************************************************)
(* Bakery_Site: the cart, the checkout-to-order pipeline and the order     *)
(* status updates of the Django application under src/base.                *)
(*                                                                         *)
(* The database is the state: the Product, CartItem, Order and OrderItem   *)
(* tables and the SiteSettings row.  Tables are sequences of rows in       *)
(* insertion order.  A view that touches the database once is one action.  *)
(* The checkout view reads the cart (views.py:164-165) and writes in a     *)
(* later transaction (views.py:495-527); a request in between is a         *)
(* process with a program counter, so that other requests interleave.      *)
(* transaction.atomic() is one step: its writes become visible together at *)
(* commit, or not at all.                                                  *)
(*                                                                         *)
(* Strings are tuples of one-character strings.  Money is an integer       *)
(* number of minor units.  Time is an integer number of hours.             *)
(***************************************************************************)
EXTENDS Integers, Sequences, FiniteSets, TLC

\* ---------------------------------------------------------------- bounds
MaxQty == 2          \* cap on a cart line's quantity counter
MaxOrders == 1       \* cap on the number of Order rows
MaxRaceOrders == 2   \* the same cap where two checkouts race
MaxClock == 1        \* cap on the clock

Users == {"u1", "u2"}
ProductIds == {"p1", "p2"}
Reqs == {"r1", "r2"}
Prices == {1, 2}
Stocks == {0, 1}
Suffixes == {"A", "B"}
NoUser == "nobody"

\* ---------------------------------------------------------------- strings
Digits == <<"0", "1", "2", "3", "4", "5", "6", "7", "8", "9">>
UpperCase == <<"A", "D", "H", "O", "R", "S", "U", "Y">>
LowerCase == <<"a", "d", "h", "o", "r", "s", "u", "y">>
Whitespace == {" "}

IsDigit(c) == \E i \in 1..Len(Digits) : Digits[i] = c
DigitVal(c) == (CHOOSE i \in 1..Len(Digits) : Digits[i] = c) - 1

\* str.lower()
LowerChar(c) ==
    IF \E i \in 1..Len(UpperCase) : UpperCase[i] = c
    THEN LowerCase[CHOOSE i \in 1..Len(UpperCase) : UpperCase[i] = c]
    ELSE c
Lower(s) == [i \in 1..Len(s) |-> LowerChar(s[i])]

\* sub in s
Contains(sub, s) ==
    \E i \in 1..(Len(s) - Len(sub) + 1) : SubSeq(s, i, i + Len(sub) - 1) = sub

\* str.strip()
Strip(s) ==
    LET keep == {i \in 1..Len(s) : s[i] \notin Whitespace}
    IN  IF keep = {} THEN <<>>
        ELSE LET lo == CHOOSE i \in keep : \A j \in keep : i <= j
                 hi == CHOOSE i \in keep : \A j \in keep : j <= i
             IN  SubSeq(s, lo, hi)

\* int() of a string of digits
RECURSIVE ToInt(_)
ToInt(d) ==
    IF d = <<>> THEN 0
    ELSE 10 * ToInt(SubSeq(d, 1, Len(d) - 1)) + DigitVal(d[Len(d)])

\* ''.join(filter(str.isdigit, s))
DigitsOf(s) == SelectSeq(s, IsDigit)

HOUR == <<"h", "o", "u", "r">>
DAY == <<"d", "a", "y">>
DefaultNotice == <<"2", "4", " ", "h", "o", "u", "r", "s">>
DefaultNoticeHours == 24

\* The body of the try block of the lead-time parse: int('') raises
\* ValueError when the text has a unit word and no digit.
NoticeParse(notice) ==
    IF notice = <<>> THEN [raised |-> FALSE, hours |-> DefaultNoticeHours]
    ELSE LET notice_text == Lower(notice)
             d == DigitsOf(notice_text)
         IN  IF Contains(HOUR, notice_text)
             THEN IF d = <<>> THEN [raised |-> TRUE, hours |-> 0]
                  ELSE [raised |-> FALSE, hours |-> IF ToInt(d) = 0 THEN 24 ELSE ToInt(d)]
             ELSE IF Contains(DAY, notice_text)
             THEN IF d = <<>> THEN [raised |-> TRUE, hours |-> 0]
                  ELSE [raised |-> FALSE,
                        hours |-> (IF ToInt(d) = 0 THEN 1 ELSE ToInt(d)) * 24]
             ELSE [raised |-> FALSE, hours |-> DefaultNoticeHours]

NoticeHours_DaysAsHours(notice) ==
    LET d == DigitsOf(Lower(notice))
    IN  IF d = <<>> \/ ToInt(d) = 0 THEN DefaultNoticeHours ELSE ToInt(d)

\* The lead-time parse of process_checkout: the bare except turns an
\* exception of the body into the default.
NoticeHours(notice) ==
    IF NoticeParse(notice).raised THEN DefaultNoticeHours ELSE NoticeParse(notice).hours

\* datetime.strptime with a fixed format, on the scale of this model: one
\* day digit, the letter T, two hour digits ("1T00" is day 1, 00h).  A
\* string of another shape, or an hour above 23, raises ValueError.
ParseDate(s) ==
    IF /\ Len(s) = 4
       /\ IsDigit(s[1]) /\ s[2] = "T" /\ IsDigit(s[3]) /\ IsDigit(s[4])
       /\ 10 * DigitVal(s[3]) + DigitVal(s[4]) <= 23
    THEN [ok |-> TRUE, t |-> 24 * DigitVal(s[1]) + 10 * DigitVal(s[3]) + DigitVal(s[4])]
    ELSE [ok |-> FALSE, t |-> 0]

\* ---------------------------------------------------------------- inputs
DateInputs ==
    { <<>>, <<" ">>, <<"x">>, <<"1", "T", "2", "4">>,
      <<"0", "T", "2", "3">>, <<"1", "T", "0", "0">>, <<" ", "1", "T", "0", "1">>,
      <<"2", "T", "0", "0">> }
NoticeSpecs ==
    { DefaultNotice, <<"2", " ", "d", "a", "y", "s">>, <<"g", "a", "r", "b", "a", "g", "e">> }
\* values of SiteSettings.minimum_order_notice: the default, days, no unit,
\* the empty string, digits without a unit, a unit without digits, zero, and
\* upper case
NoticeInputs ==
    NoticeSpecs \cup
    { <<>>, <<"4", "8">>, <<"h", "o", "u", "r", "s">>, <<"d", "a", "y">>,
      <<"0", " ", "h", "o", "u", "r", "s">>, <<"0", " ", "d", "a", "y", "s">>,
      <<"3", " ", "H", "O", "U", "R", "S">> }
\* values with more than one number in them
ParseInputs ==
    { DefaultNotice, <<"2", " ", "d", "a", "y", "s">>, <<"4", "8">>,
      <<"2", " ", "t", "o", " ", "3", " ", "d", "a", "y", "s">>,
      <<"1", " ", "d", "a", "y", " ", "1", "2", " ", "h", "o", "u", "r", "s">> }
NoticeDates ==
    { <<"0", "T", "0", "3">>, <<"1", "T", "0", "0">>, <<"1", "T", "0", "1">>,
      <<"2", "T", "0", "0">> }
Changes == {-2, -1, 0, 1}
ORDER_STATUS_CHOICES ==
    {"pending", "confirmed", "in_progress", "ready", "completed", "cancelled"}
StatusInputs == {"confirmed", "completed", "cancelled", "shipped"}
AllStatusInputs == ORDER_STATUS_CHOICES \cup {"shipped", ""}

\* ---------------------------------------------------------------- state
VARIABLES
    products,     \* Product table: id -> row (exists = FALSE: no such row)
    cartItems,    \* CartItem table
    orders,       \* Order table
    orderItems,   \* OrderItem table
    settings,     \* SiteSettings.minimum_order_notice of the first row, or NoSettings
    settingsRows, \* number of rows of the SiteSettings table
    session,      \* request.session['cart'] of the anonymous visitor: product -> quantity, 0 for no key
    clock,        \* timezone.now()
    reqs,         \* checkout requests between their cart read and their transaction
    procs,        \* other requests between two of their database statements
    resp          \* the answer of the last request that completed

vars == <<products, cartItems, orders, orderItems, settings, settingsRows, session, clock, reqs, procs, resp>>
db == <<products, cartItems, orders, orderItems, settings, settingsRows, session>>

NoSettings == <<"-">>

NoForm ==
    [customer_name |-> <<>>, customer_email |-> <<>>, customer_phone |-> <<>>,
     delivery_date |-> <<>>]

IdleReq ==
    [pc |-> "idle", user |-> NoUser, form |-> NoForm, cart_items |-> <<>>,
     cart_total |-> 0, notice |-> <<>>, superseded |-> FALSE]

\* a request that is not between two statements; old and n are history: the
\* quantity of the line when the first of the overlapping requests read it,
\* and how many requests have overlapped since
IdleProc ==
    [pc |-> "idle", user |-> NoUser, product |-> "-", quantity |-> 0,
     old |-> 0, n |-> 0]

Response(op, success, outcome) == [op |-> op, success |-> success, outcome |-> outcome]

RECURSIVE SumSeq(_)
SumSeq(s) == IF s = <<>> THEN 0 ELSE Head(s) + SumSeq(Tail(s))

\* ---------------------------------------------------------------- models
\* get_object_or_404(Product, id=...)
ProductFound(p) == products[p].exists

\* CartItem.objects.filter(user=u)
CartOf(table, u) == SelectSeq(table, LAMBDA ci : ci.user = u)

\* the rows of (user, product)
CartItemMatches(table, u, p) ==
    {i \in DOMAIN table : table[i].user = u /\ table[i].product = p}

\* CartItem.get_total_price, with the product row joined in
LinePrice(ci) == products[ci.product].price * ci.quantity

\* QuerySet.delete() / Model.delete(): the rows a test selects are removed
DeleteWhere(table, Test(_)) == SelectSeq(table, LAMBDA row : ~Test(row))

\* INSERT into CartItem under unique_together = ('user', 'product')
CartItemInsert(table, row) ==
    IF CartItemMatches(table, row.user, row.product) # {}
    THEN [ok |-> FALSE, table |-> table]
    ELSE [ok |-> TRUE, table |-> Append(table, row)]

GetOrCreate_AlwaysCreate(table, u, p) ==
    [ok |-> TRUE, created |-> TRUE,
     table |-> Append(table, [user |-> u, product |-> p, quantity |-> 1])]

\* CartItem.objects.get_or_create(user=u, product=p, defaults={'quantity': 1})
GetOrCreate(table, u, p) ==
    LET m == CartItemMatches(table, u, p)
    IN  IF Cardinality(m) > 1
        THEN [ok |-> FALSE, created |-> FALSE, table |-> table]
        ELSE IF m # {}
        THEN [ok |-> TRUE, created |-> FALSE, table |-> table]
        ELSE LET ins == CartItemInsert(table, [user |-> u, product |-> p, quantity |-> 1])
             IN  [ok |-> ins.ok, created |-> ins.ok, table |-> ins.table]

\* the part of the state space that is explored
Bounded(cap) ==
    /\ clock <= MaxClock
    /\ Len(orders) <= cap
    /\ \A i \in DOMAIN cartItems : cartItems[i].quantity <= MaxQty

\* ---------------------------------------------------------------- cart views
AddLookup_IgnoresActive(p) == ProductFound(p)

\* get_object_or_404(Product, id=product_id, is_active=True)
AddLookup(p) == ProductFound(p) /\ products[p].is_active

\* cart_views.add_to_cart
add_to_cart(u, p) ==
    IF ~AddLookup(p)
    THEN /\ resp' = Response("add_to_cart", FALSE, "error")
         /\ UNCHANGED <<db, clock, reqs, procs>>
    ELSE LET goc == GetOrCreate(cartItems, u, p)
         IN  IF ~goc.ok
             THEN /\ resp' = Response("add_to_cart", FALSE, "error")
                  /\ UNCHANGED <<db, clock, reqs, procs>>
             ELSE /\ cartItems' =
                        IF goc.created THEN goc.table
                        ELSE [i \in DOMAIN cartItems |->
                                IF i \in CartItemMatches(cartItems, u, p)
                                THEN [cartItems[i] EXCEPT !.quantity = @ + 1]
                                ELSE cartItems[i]]
                  /\ resp' = Response("add_to_cart", TRUE, "added")
                  /\ UNCHANGED <<products, orders, orderItems, settings, settingsRows, session, clock, reqs, procs>>

\* The history fields of request a when it starts on the line (u, p) whose
\* quantity is q (0: no line).  It is the second of a pair when the last
\* request of the other worker was on the same line and alone; it is alone
\* (n = 1) when the other worker is not at work on the line; otherwise it
\* overlaps a request of an earlier pair (n = 3).
PairOf(a, u, p, q) ==
    LET others == {b \in Reqs \ {a} : procs[b].user = u /\ procs[b].product = p}
    IN  IF \E b \in others : procs[b].n = 1
        THEN [old |-> procs[CHOOSE b \in others : procs[b].n = 1].old, n |-> 2]
        ELSE IF \E b \in others : procs[b].pc = "got"
        THEN [old |-> q, n |-> 3]
        ELSE [old |-> q, n |-> 1]

\* procs after request a took its place in a pair
Paired(a, rec) ==
    [b \in Reqs |->
        IF b = a THEN rec
        ELSE IF rec.n = 2 /\ procs[b].user = rec.user /\ procs[b].product = rec.product
                /\ procs[b].n = 1
        THEN [procs[b] EXCEPT !.n = 2]
        ELSE procs[b]]

\* cart_views.add_to_cart up to the answer of get_or_create, for a request
\* that runs beside others.  get_or_create is one step: it answers with the
\* row it found or made, and a second creator gets the IntegrityError of
\* unique_together inside get_or_create and reads the row of the first.
add_to_cart_read(a, u, p) ==
    /\ procs[a].pc = "idle"
    /\ IF ~AddLookup(p)
       THEN /\ resp' = Response("add_to_cart", FALSE, "error")
            /\ UNCHANGED <<db, clock, reqs, procs>>
       ELSE LET goc == GetOrCreate(cartItems, u, p)
            IN  IF ~goc.ok
                THEN /\ resp' = Response("add_to_cart", FALSE, "error")
                     /\ UNCHANGED <<db, clock, reqs, procs>>
                ELSE IF goc.created
                THEN /\ cartItems' = goc.table
                     /\ procs' = Paired(a, [pc |-> "idle", user |-> u, product |-> p,
                                            quantity |-> 0, old |-> PairOf(a, u, p, 0).old,
                                            n |-> PairOf(a, u, p, 0).n])
                     /\ resp' = Response("add_to_cart", TRUE, "added")
                     /\ UNCHANGED <<products, orders, orderItems, settings, settingsRows,
                                    session, clock, reqs>>
                ELSE LET q == cartItems[CHOOSE i \in CartItemMatches(cartItems, u, p) :
                                           TRUE].quantity
                     IN  /\ procs' = Paired(a, [pc |-> "got", user |-> u, product |-> p,
                                                quantity |-> q, old |-> PairOf(a, u, p, q).old,
                                                n |-> PairOf(a, u, p, q).n])
                         /\ UNCHANGED <<db, clock, reqs, resp>>

\* the row that save() writes, when something makes it an INSERT
add_to_cart_save_Insert(a) ==
    /\ procs[a].pc = "got"
    /\ cartItems' = Append(cartItems, [user |-> procs[a].user, product |-> procs[a].product,
                                       quantity |-> procs[a].quantity + 1])
    /\ procs' = [procs EXCEPT ![a].pc = "idle"]
    /\ resp' = Response("add_to_cart", TRUE, "added")
    /\ UNCHANGED <<products, orders, orderItems, settings, settingsRows, session, clock, reqs>>

\* cart_views.add_to_cart from `if not created`: cart_item.quantity += 1 on
\* the object that get_or_create returned, then save(), an UPDATE of the row
\* (an INSERT when the row is gone)
add_to_cart_save(a) ==
    /\ procs[a].pc = "got"
    /\ LET u == procs[a].user
           p == procs[a].product
           m == CartItemMatches(cartItems, u, p)
           row == [user |-> u, product |-> p, quantity |-> procs[a].quantity + 1]
       IN  cartItems' = IF m = {} THEN CartItemInsert(cartItems, row).table
                        ELSE [i \in DOMAIN cartItems |-> IF i \in m THEN row ELSE cartItems[i]]
    /\ procs' = [procs EXCEPT ![a].pc = "idle"]
    /\ resp' = Response("add_to_cart", TRUE, "added")
    /\ UNCHANGED <<products, orders, orderItems, settings, settingsRows, session, clock, reqs>>

\* request body of update_cart_quantity: json.loads / int() raise on a bad one
BodyInputs ==
    {[valid |-> FALSE, change |-> 0]} \cup {[valid |-> TRUE, change |-> c] : c \in Changes}

\* shipping = 5.00 if subtotal > 0 else 0; total = subtotal + shipping.
\* subtotal is a Decimal as soon as the cart has a line and shipping is then
\* the float 5.00: Decimal + float raises TypeError.  With an empty cart
\* subtotal is the int 0 and the sum is 0 + 0.
TotalsRaise(subtotal) == subtotal > 0

ExceedsStock_Never(new_quantity, p) == FALSE

\* if new_quantity > product.stock_quantity
ExceedsStock(new_quantity, p) == new_quantity > products[p].stock_quantity

Max_Right(a, b) == b

Max(a, b) == IF a >= b THEN a ELSE b

\* cart_views.update_cart_quantity (the second definition, the one bound to
\* the name at import time)
update_cart_quantity(u, p, body) ==
    IF ~body.valid \/ ~ProductFound(p) \/ CartItemMatches(cartItems, u, p) = {}
    THEN /\ resp' = Response("update_cart_quantity", FALSE, "error")
         /\ UNCHANGED <<db, clock, reqs, procs>>
    ELSE LET i == CHOOSE j \in CartItemMatches(cartItems, u, p) : TRUE
             new_quantity == Max(0, cartItems[i].quantity + body.change)
             table == IF new_quantity = 0
                      THEN DeleteWhere(cartItems, LAMBDA ci : ci = cartItems[i])
                      ELSE [cartItems EXCEPT ![i].quantity = new_quantity]
             subtotal == SumSeq([k \in DOMAIN CartOf(table, u) |->
                                    LinePrice(CartOf(table, u)[k])])
         IN  IF ExceedsStock(new_quantity, p)
             THEN /\ resp' = Response("update_cart_quantity", FALSE, "not_enough_stock")
                  /\ UNCHANGED <<db, clock, reqs, procs>>
             ELSE /\ cartItems' = table
                  /\ resp' = IF TotalsRaise(subtotal)
                             THEN Response("update_cart_quantity", FALSE, "error")
                             ELSE Response("update_cart_quantity", TRUE, "updated")
                  /\ UNCHANGED <<products, orders, orderItems, settings, settingsRows, session, clock, reqs, procs>>

\* get_object_or_404(CartItem, user=u, product=p).delete()
CartItemDelete(table, u, p) ==
    DeleteWhere(table, LAMBDA ci : ci.user = u /\ ci.product = p)

\* cart_views.remove_from_cart (the second definition), signed-in branch
remove_from_cart(u, p) ==
    IF ~ProductFound(p) \/ CartItemMatches(cartItems, u, p) = {}
    THEN /\ resp' = Response("remove_from_cart", FALSE, "error")
         /\ UNCHANGED <<db, clock, reqs, procs>>
    ELSE /\ cartItems' = CartItemDelete(cartItems, u, p)
         /\ resp' = Response("remove_from_cart", TRUE, "removed")
         /\ UNCHANGED <<products, orders, orderItems, settings, settingsRows, session, clock, reqs, procs>>

\* ---------------------------------------------------------------- anonymous visitor
anon_add_to_cart_Session(p) ==
    /\ session' = [session EXCEPT ![p] = @ + 1]
    /\ resp' = Response("add_to_cart", TRUE, "added")
    /\ UNCHANGED <<products, cartItems, orders, orderItems, settings, settingsRows, clock, reqs, procs>>

\* cart_views.add_to_cart without a signed-in user: @login_required answers
\* with the redirect to the login page before the view body runs
anon_add_to_cart(p) ==
    /\ resp' = Response("add_to_cart", FALSE, "login_required")
    /\ UNCHANGED <<db, clock, reqs, procs>>

\* cart_views.update_cart_quantity without a signed-in user: @login_required
\* again, so the session branch of the body is never entered
anon_update_cart_quantity(p, body) ==
    /\ resp' = Response("update_cart_quantity", FALSE, "login_required")
    /\ UNCHANGED <<db, clock, reqs, procs>>

\* cart_views.remove_from_cart (the second definition), session branch
anon_remove_from_cart(p) ==
    IF ~ProductFound(p) \/ session[p] = 0
    THEN /\ resp' = Response("remove_from_cart", FALSE,
                             IF ProductFound(p) THEN "not_in_cart" ELSE "error")
         /\ UNCHANGED <<db, clock, reqs, procs>>
    ELSE /\ session' = [session EXCEPT ![p] = 0]
         /\ resp' = Response("remove_from_cart", TRUE, "removed")
         /\ UNCHANGED <<products, cartItems, orders, orderItems, settings, settingsRows, clock, reqs, procs>>

\* ---------------------------------------------------------------- checkout
\* settings = SiteSettings.objects.first() or SiteSettings()
NoticeSetting == IF settings = NoSettings THEN DefaultNotice ELSE settings

\* CartItem.objects.filter(user=u).select_related('product'), evaluated once
\* by the sum of views.py:165: each line carries the product row it joined
CartSnapshot(u) ==
    LET c == CartOf(cartItems, u)
    IN  [k \in DOMAIN c |->
            [product |-> c[k].product, quantity |-> c[k].quantity,
             price |-> products[c[k].product].price]]

\* sum(item.get_total_price() for item in cart_items)
CartTotal(lines) == SumSeq([k \in DOMAIN lines |-> lines[k].price * lines[k].quantity])

\* views.checkout, GET by a signed-in user: renders the form
checkout_get(u) ==
    /\ resp' = Response("checkout", TRUE, "form")
    /\ UNCHANGED <<db, clock, reqs, procs>>

\* views.checkout, POST of a form by a signed-in user, up to the call of
\* process_checkout
checkout_post(r, u, form) ==
    /\ reqs[r].pc = "idle"
    /\ reqs' = [reqs EXCEPT ![r] =
                  [pc |-> "posted", user |-> u, form |-> form,
                   cart_items |-> CartSnapshot(u),
                   cart_total |-> CartTotal(CartSnapshot(u)),
                   notice |-> NoticeSetting, superseded |-> FALSE]]
    /\ UNCHANGED <<db, clock, procs, resp>>

Methods == {"GET", "POST"}

anon_checkout_FallsThrough(method, form) ==
    IF method = "GET" THEN checkout_get(NoUser) ELSE checkout_post("r2", NoUser, form)

\* views.checkout without a signed-in user: the else of
\* request.user.is_authenticated warns and redirects to the cart page, before
\* the method is looked at
anon_checkout(method, form) ==
    /\ resp' = Response("checkout", FALSE, "redirect_cart")
    /\ UNCHANGED <<db, clock, reqs, procs>>

Forms ==
    [customer_name : {<<" ">>, <<"a", " ">>}, customer_email : {<<>>, <<"a">>},
     customer_phone : {<<>>, <<" ", "a">>}, delivery_date : DateInputs]

Validate_DateFirst(cart_items, form, notice, now) ==
    IF cart_items = <<>> THEN "empty_cart"
    ELSE IF ~ParseDate(Strip(form.delivery_date)).ok THEN "invalid_date"
    ELSE IF \E f \in {form.customer_name, form.customer_email, form.customer_phone} :
               Strip(f) = <<>>
    THEN "missing_fields"
    ELSE IF ParseDate(Strip(form.delivery_date)).t < now + NoticeHours(notice)
    THEN "insufficient_notice"
    ELSE "ok"

MinDeliveryTime_Strict(now, notice) == now + NoticeHours(notice) + 1

\* min_delivery_time = timezone.now() + timedelta(hours=notice_hours)
MinDeliveryTime(now, notice) == now + NoticeHours(notice)

\* the checkpoints of process_checkout before the transaction
Validate(cart_items, form, notice, now) ==
    IF cart_items = <<>> THEN "empty_cart"
    ELSE IF \E f \in {form.customer_name, form.customer_email, form.customer_phone,
                      form.delivery_date} : Strip(f) = <<>>
    THEN "missing_fields"
    ELSE IF ~ParseDate(Strip(form.delivery_date)).ok THEN "invalid_date"
    ELSE IF ParseDate(Strip(form.delivery_date)).t < MinDeliveryTime(now, notice)
    THEN "insufficient_notice"
    ELSE "ok"

\* strftime('%Y%m%d') of the clock
DateStamp(now) == now \div 24

Faults == {"none", "order_insert", "item_insert", "cart_delete"}

OrderIds == {orders[i].id : i \in DOMAIN orders}
NextOrderId == 1 + Cardinality(OrderIds)

OrderInsert_NoUnique(w, row, fault) ==
    IF fault = "order_insert"
    THEN [w EXCEPT !.raised = TRUE]
    ELSE [w EXCEPT !.orders = Append(@, row)]

\* INSERT into Order under unique=True on order_number
OrderInsert(w, row, fault) ==
    IF fault = "order_insert" \/ \E i \in DOMAIN w.orders : w.orders[i].order_number = row.order_number
    THEN [w EXCEPT !.raised = TRUE]
    ELSE [w EXCEPT !.orders = Append(@, row)]

OrderItemRow_LivePrice(oid, line) ==
    [order |-> oid, product |-> line.product, quantity |-> line.quantity,
     unit_price |-> products[line.product].price]

\* the row of OrderItem.objects.create(order=order, product=cart_item.product,
\* quantity=cart_item.quantity, unit_price=cart_item.product.price)
OrderItemRow(oid, line) ==
    [order |-> oid, product |-> line.product, quantity |-> line.quantity,
     unit_price |-> line.price]

\* the loop over cart_items; an injected storage error hits the last insert
RECURSIVE OrderItemsInsert(_, _, _, _)
OrderItemsInsert(w, oid, lines, fault) ==
    IF w.raised \/ lines = <<>> THEN w
    ELSE IF \/ (fault = "item_insert" /\ Len(lines) = 1)
            \/ \E i \in DOMAIN w.orderItems :
                  w.orderItems[i].order = oid /\ w.orderItems[i].product = Head(lines).product
    THEN [w EXCEPT !.raised = TRUE]
    ELSE OrderItemsInsert([w EXCEPT !.orderItems = Append(@, OrderItemRow(oid, Head(lines)))],
                          oid, Tail(lines), fault)

ClearCart_SnapshotOnly(w, u, lines, fault) ==
    IF w.raised THEN w
    ELSE IF fault = "cart_delete" THEN [w EXCEPT !.raised = TRUE]
    ELSE [w EXCEPT !.cartItems =
            DeleteWhere(@, LAMBDA ci : ci.user = u /\
                \E k \in DOMAIN lines : lines[k].product = ci.product
                                        /\ lines[k].quantity = ci.quantity)]

\* cart_items.delete(): QuerySet.delete() runs the filter again, so it
\* removes the rows the user has now, not the rows read at views.py:165
ClearCart(w, u, lines, fault) ==
    IF w.raised THEN w
    ELSE IF fault = "cart_delete" THEN [w EXCEPT !.raised = TRUE]
    ELSE [w EXCEPT !.cartItems = DeleteWhere(@, LAMBDA ci : ci.user = u)]

CommitCheck_StockChecked(w, oid) ==
    IF w.raised THEN w
    ELSE IF \E i \in DOMAIN w.orderItems :
               /\ w.orderItems[i].order = oid
               /\ \/ ~products[w.orderItems[i].product].exists
                  \/ w.orderItems[i].quantity > products[w.orderItems[i].product].stock_quantity
    THEN [w EXCEPT !.raised = TRUE]
    ELSE w

\* the foreign keys of the new OrderItem rows, checked when the block commits
CommitCheck(w, oid) ==
    IF w.raised THEN w
    ELSE IF \E i \in DOMAIN w.orderItems :
               w.orderItems[i].order = oid /\ ~products[w.orderItems[i].product].exists
    THEN [w EXCEPT !.raised = TRUE]
    ELSE w

Atomic_NoRollback(before, w) == w

\* with transaction.atomic(): an exception undoes every write of the block
Atomic(before, w) == IF w.raised THEN [before EXCEPT !.raised = TRUE] ELSE w

\* status='pending' of views.py:509
OrderStatusAtCreate == "pending"

\* the body of the transaction of process_checkout
CheckoutTxn(rq, suffix, fault) ==
    LET form == rq.form
        before == [orders |-> orders, orderItems |-> orderItems,
                   cartItems |-> cartItems, raised |-> FALSE]
        oid == NextOrderId
        row == [id |-> oid,
                order_number |-> <<"ORD", DateStamp(clock), suffix>>,
                customer_name |-> Strip(form.customer_name),
                customer_email |-> Strip(form.customer_email),
                customer_phone |-> Strip(form.customer_phone),
                total_amount |-> rq.cart_total,
                delivery_date |-> ParseDate(Strip(form.delivery_date)).t,
                status |-> OrderStatusAtCreate]
        w1 == OrderInsert(before, row, fault)
        w2 == OrderItemsInsert(w1, oid, rq.cart_items, fault)
        w3 == ClearCart(w2, rq.user, rq.cart_items, fault)
    IN  Atomic(before, CommitCheck(w3, oid))

ValidationExit_ClearsCart(r, verdict) ==
    /\ resp' = Response("checkout", FALSE, verdict)
    /\ reqs' = [reqs EXCEPT ![r] = IdleReq]
    /\ cartItems' = SelectSeq(cartItems, LAMBDA ci : ci.user # reqs[r].user)
    /\ UNCHANGED <<products, orders, orderItems, settings, settingsRows, session, clock, procs>>

\* messages.error(...) and return redirect(...) at a failed checkpoint
ValidationExit(r, verdict) ==
    /\ resp' = Response("checkout", FALSE, verdict)
    /\ reqs' = [reqs EXCEPT ![r] = IdleReq]
    /\ UNCHANGED <<db, clock, procs>>

\* views.process_checkout
process_checkout(r, suffix, fault) ==
    /\ reqs[r].pc = "posted"
    /\ LET rq == reqs[r]
           verdict == Validate(rq.cart_items, rq.form, rq.notice, clock)
       IN  IF verdict # "ok"
           THEN ValidationExit(r, verdict)
           ELSE LET w == CheckoutTxn(rq, suffix, fault)
                IN  /\ orders' = w.orders
                    /\ orderItems' = w.orderItems
                    /\ cartItems' = w.cartItems
                    /\ resp' = IF w.raised
                               THEN Response("checkout", FALSE, "order_failed")
                               ELSE Response("checkout", TRUE, "order_placed")
                    /\ reqs' = [q \in Reqs |->
                                  IF q = r THEN IdleReq
                                  ELSE IF /\ ~w.raised
                                          /\ reqs[q].pc = "posted"
                                          /\ reqs[q].user = rq.user
                                          /\ reqs[q].cart_items = rq.cart_items
                                       THEN [reqs[q] EXCEPT !.superseded = TRUE]
                                       ELSE reqs[q]]
                    /\ UNCHANGED <<products, settings, settingsRows, session, clock, procs>>

\* ---------------------------------------------------------------- staff and API
SaveStatus_AllRows(table, oid, status) ==
    [i \in DOMAIN table |-> [table[i] EXCEPT !.status = status]]

\* order.status = status; order.save()
SaveStatus(table, oid, status) ==
    [i \in DOMAIN table |->
        IF table[i].id = oid THEN [table[i] EXCEPT !.status = status] ELSE table[i]]

StatusOf(table, oid) == table[CHOOSE i \in DOMAIN table : table[i].id = oid].status

admin_update_order_status_Guarded(oid, new_status) ==
    IF oid \notin OrderIds
    THEN /\ resp' = Response("admin_update_order_status", FALSE, "error")
         /\ UNCHANGED <<db, clock, reqs, procs>>
    ELSE IF new_status \in ORDER_STATUS_CHOICES
            /\ StatusOf(orders, oid) \notin {"completed", "cancelled"}
    THEN /\ orders' = SaveStatus(orders, oid, new_status)
         /\ resp' = Response("admin_update_order_status", TRUE, new_status)
         /\ UNCHANGED <<products, cartItems, orderItems, settings, settingsRows, session, clock, reqs, procs>>
    ELSE /\ resp' = Response("admin_update_order_status", FALSE, "invalid_status")
         /\ UNCHANGED <<db, clock, reqs, procs>>

\* admin_views.admin_update_order_status, PATCH
admin_update_order_status(oid, new_status) ==
    IF oid \notin OrderIds
    THEN /\ resp' = Response("admin_update_order_status", FALSE, "error")
         /\ UNCHANGED <<db, clock, reqs, procs>>
    ELSE IF new_status \in ORDER_STATUS_CHOICES
    THEN /\ orders' = SaveStatus(orders, oid, new_status)
         /\ resp' = Response("admin_update_order_status", TRUE, new_status)
         /\ UNCHANGED <<products, cartItems, orderItems, settings, settingsRows, session, clock, reqs, procs>>
    ELSE /\ resp' = Response("admin_update_order_status", FALSE, "invalid_status")
         /\ UNCHANGED <<db, clock, reqs, procs>>

OrderActions == {"confirm", "start_progress", "mark_ready", "complete"}

\* the status each action of OrderViewSet writes
ActionStatus(act) ==
    CASE act = "confirm" -> "confirmed"
      [] act = "start_progress" -> "in_progress"
      [] act = "mark_ready" -> "ready"
      [] act = "complete" -> "completed"

order_action_Once(oid, act) ==
    IF oid \notin OrderIds \/ StatusOf(orders, oid) = ActionStatus(act)
    THEN /\ resp' = Response("order_action", FALSE, "not_found")
         /\ UNCHANGED <<db, clock, reqs, procs>>
    ELSE /\ orders' = SaveStatus(orders, oid, ActionStatus(act))
         /\ resp' = Response("order_action", TRUE, ActionStatus(act))
         /\ UNCHANGED <<products, cartItems, orderItems, settings, settingsRows, session, clock, reqs, procs>>

\* POST /api/orders/<pk>/confirm/, start_progress/, mark_ready/, complete/
order_action(oid, act) ==
    IF oid \notin OrderIds
    THEN /\ resp' = Response("order_action", FALSE, "not_found")
         /\ UNCHANGED <<db, clock, reqs, procs>>
    ELSE /\ orders' = SaveStatus(orders, oid, ActionStatus(act))
         /\ resp' = Response("order_action", TRUE, ActionStatus(act))
         /\ UNCHANGED <<products, cartItems, orderItems, settings, settingsRows, session, clock, reqs, procs>>

\* admin_views.admin_edit_product, POST: ProductForm.clean_price rejects a
\* price that is not positive
admin_edit_product(p, price, stock, active) ==
    IF ~ProductFound(p) \/ price <= 0
    THEN /\ resp' = Response("admin_edit_product", FALSE, "error")
         /\ UNCHANGED <<db, clock, reqs, procs>>
    ELSE /\ products' = [products EXCEPT ![p] =
                            [exists |-> TRUE, price |-> price, stock_quantity |-> stock,
                             is_active |-> active]]
         /\ resp' = Response("admin_edit_product", TRUE, "saved")
         /\ UNCHANGED <<cartItems, orders, orderItems, settings, settingsRows, session, clock, reqs, procs>>

\* admin_views.admin_toggle_product_availability, PATCH
admin_toggle_product_availability(p) ==
    IF ~ProductFound(p)
    THEN /\ resp' = Response("admin_toggle_product_availability", FALSE, "error")
         /\ UNCHANGED <<db, clock, reqs, procs>>
    ELSE /\ products' = [products EXCEPT ![p].is_active = ~@]
         /\ resp' = Response("admin_toggle_product_availability", TRUE, "toggled")
         /\ UNCHANGED <<cartItems, orders, orderItems, settings, settingsRows, session, clock, reqs, procs>>

\* admin_views.admin_delete_product, DELETE: CartItem.product and
\* OrderItem.product are on_delete=CASCADE
admin_delete_product(p) ==
    IF ~ProductFound(p)
    THEN /\ resp' = Response("admin_delete_product", FALSE, "error")
         /\ UNCHANGED <<db, clock, reqs, procs>>
    ELSE /\ products' = [products EXCEPT ![p].exists = FALSE]
         /\ cartItems' = DeleteWhere(cartItems, LAMBDA ci : ci.product = p)
         /\ orderItems' = DeleteWhere(orderItems, LAMBDA oi : oi.product = p)
         /\ resp' = Response("admin_delete_product", TRUE, "deleted")
         /\ UNCHANGED <<orders, settings, settingsRows, session, clock, reqs, procs>>

\* POST /api/orders/: OrderDetailSerializer.validate_delivery_date, then
\* OrderDetailSerializer.create with the number "BWL" + 8 random characters;
\* items is read-only, status is left to the model default
api_create_order(total, delivery, suffix) ==
    LET before == [orders |-> orders, orderItems |-> orderItems,
                   cartItems |-> cartItems, raised |-> FALSE]
        row == [id |-> NextOrderId, order_number |-> <<"BWL", suffix>>,
                customer_name |-> <<"a">>, customer_email |-> <<"a">>,
                customer_phone |-> <<"a">>, total_amount |-> total,
                delivery_date |-> delivery, status |-> "pending"]
        w == OrderInsert(before, row, "none")
    IN  IF delivery <= clock
        THEN /\ resp' = Response("api_create_order", FALSE, "invalid")
             /\ UNCHANGED <<db, clock, reqs, procs>>
        ELSE /\ orders' = w.orders
             /\ resp' = IF w.raised THEN Response("api_create_order", FALSE, "error")
                        ELSE Response("api_create_order", TRUE, "created")
             /\ UNCHANGED <<products, cartItems, orderItems, settings, settingsRows, session, clock, reqs, procs>>

\* PUT /api/site-settings/<id>/, or the first save when there is no row
save_settings(notice) ==
    /\ settings' = notice
    /\ settingsRows' = IF settingsRows = 0 THEN 1 ELSE settingsRows
    /\ resp' = Response("save_settings", TRUE, "saved")
    /\ UNCHANGED <<products, cartItems, orders, orderItems, session, clock, reqs, procs>>

\* admin_views.admin_settings, POST: SiteSettings.objects.first(), then the
\* save of the row it found, or the start of SiteSettings.objects.create
\* when it found none.  The POST does not carry minimum_order_notice.
admin_settings(a) ==
    /\ procs[a].pc = "idle"
    /\ IF settingsRows > 0
       THEN /\ resp' = Response("admin_settings", TRUE, "saved")
            /\ UNCHANGED <<db, clock, reqs, procs>>
       ELSE /\ procs' = [procs EXCEPT ![a] = [IdleProc EXCEPT !.pc = "creating"]]
            /\ UNCHANGED <<db, clock, reqs, resp>>

\* SiteSettingsAdmin.has_add_permission, then the add form of the admin site
admin_site_add(a) ==
    /\ procs[a].pc = "idle"
    /\ IF settingsRows > 0
       THEN /\ resp' = Response("admin_site_add", FALSE, "forbidden")
            /\ UNCHANGED <<db, clock, reqs, procs>>
       ELSE /\ procs' = [procs EXCEPT ![a] = [IdleProc EXCEPT !.pc = "creating"]]
            /\ UNCHANGED <<db, clock, reqs, resp>>

\* SiteSettings.save of an object without pk, first statement: the query
\* SiteSettings.objects.exists() and the raise
SiteSettings_save(a) ==
    /\ procs[a].pc = "creating"
    /\ IF settingsRows > 0
       THEN /\ procs' = [procs EXCEPT ![a] = IdleProc]
            /\ resp' = Response("SiteSettings.save", FALSE, "error")
            /\ UNCHANGED <<db, clock, reqs>>
       ELSE /\ procs' = [procs EXCEPT ![a] = [IdleProc EXCEPT !.pc = "inserting"]]
            /\ UNCHANGED <<db, clock, reqs, resp>>

\* SiteSettings.save, second statement: super().save(), the INSERT of a row
\* with the default minimum_order_notice.  The table has no constraint on
\* the number of its rows; first() keeps answering with the oldest row.
super_save(a) ==
    /\ procs[a].pc = "inserting"
    /\ settingsRows' = settingsRows + 1
    /\ settings' = IF settingsRows = 0 THEN DefaultNotice ELSE settings
    /\ procs' = [procs EXCEPT ![a] = IdleProc]
    /\ resp' = Response("SiteSettings.save", TRUE, "saved")
    /\ UNCHANGED <<products, cartItems, orders, orderItems, session, clock, reqs>>

\* time passes
Tick ==
    /\ clock' = clock + 1
    /\ UNCHANGED <<db, reqs, procs, resp>>

\* ---------------------------------------------------------------- specifications
InitDb ==
    /\ cartItems = <<>>
    /\ orders = <<>>
    /\ orderItems = <<>>
    /\ settings = NoSettings
    /\ settingsRows = 0
    /\ session = [p \in ProductIds |-> 0]
    /\ clock = 0
    /\ reqs = [r \in Reqs |-> IdleReq]
    /\ procs = [a \in Reqs |-> IdleProc]
    /\ resp = Response("none", TRUE, "none")

Product(price, stock, active) ==
    [exists |-> TRUE, price |-> price, stock_quantity |-> stock, is_active |-> active]

\* a catalogue of two active products, one of them out of stock
Init ==
    /\ products = [p \in ProductIds |-> IF p = "p1" THEN Product(1, 1, TRUE)
                                        ELSE Product(2, 0, TRUE)]
    /\ InitDb

GoodForm ==
    [customer_name |-> <<"a", " ">>, customer_email |-> <<"a">>,
     customer_phone |-> <<" ", "a">>, delivery_date |-> <<"2", "T", "0", "0">>]

CartOps(U, P) ==
    \/ \E u \in U, p \in P : add_to_cart(u, p)
    \/ \E u \in U, p \in P, b \in BodyInputs : update_cart_quantity(u, p, b)
    \/ \E u \in U, p \in P : remove_from_cart(u, p)

AnonCartOps ==
    \/ \E p \in ProductIds : anon_add_to_cart(p)
    \/ \E p \in ProductIds, b \in BodyInputs : anon_update_cart_quantity(p, b)
    \/ \E p \in ProductIds : anon_remove_from_cart(p)

\* the whole system
Next ==
    /\ \/ CartOps(Users, ProductIds)
       \/ AnonCartOps
       \/ \E u \in Users : checkout_get(u)
       \/ \E r \in Reqs, u \in Users, f \in Forms : checkout_post(r, u, f)
       \/ \E r \in Reqs, s \in Suffixes, x \in Faults : process_checkout(r, s, x)
       \/ \E o \in 1..MaxOrders, st \in StatusInputs : admin_update_order_status(o, st)
       \/ \E o \in 1..MaxOrders, a \in OrderActions : order_action(o, a)
       \/ \E p \in ProductIds, pr \in Prices \cup {0}, st \in Stocks, a \in BOOLEAN :
             admin_edit_product(p, pr, st, a)
       \/ \E p \in ProductIds : admin_toggle_product_availability(p)
       \/ \E p \in ProductIds : admin_delete_product(p)
       \/ \E t \in Prices, d \in {0, 24}, s \in Suffixes : api_create_order(t, d, s)
       \/ \E n \in NoticeSpecs : save_settings(n)
       \/ \E a \in Reqs, u \in Users, p \in ProductIds : add_to_cart_read(a, u, p)
       \/ \E a \in Reqs : add_to_cart_save(a)
       \/ \E m \in Methods, f \in Forms : anon_checkout(m, f)
       \/ \E a \in Reqs : admin_settings(a)
       \/ \E a \in Reqs : admin_site_add(a)
       \/ \E a \in Reqs : SiteSettings_save(a)
       \/ \E a \in Reqs : super_save(a)
       \/ Tick
    /\ Bounded(MaxOrders)'

Spec == Init /\ [][Next]_vars

\* the cart views and the catalogue changes that they depend on
NextCart ==
    /\ \/ CartOps(Users, ProductIds)
       \/ \E p \in ProductIds : admin_toggle_product_availability(p)
       \/ \E p \in ProductIds : admin_delete_product(p)
    /\ Bounded(MaxOrders)'

SpecCart == Init /\ [][NextCart]_vars

\* checkouts under notice settings with one number and with several
NextParse ==
    /\ \/ add_to_cart("u1", "p1")
       \/ \E d \in {<<"1", "T", "0", "0">>, <<"2", "T", "0", "0">>} :
             checkout_post("r1", "u1", [GoodForm EXCEPT !.delivery_date = d])
       \/ process_checkout("r1", "A", "none")
       \/ \E n \in ParseInputs : save_settings(n)
       \/ Tick
    /\ Bounded(MaxOrders)'

SpecParse == Init /\ [][NextParse]_vars

\* two workers serve the add requests of one shopper
NextAddRace ==
    /\ \/ \E a \in Reqs, p \in ProductIds : add_to_cart_read(a, "u1", p)
       \/ \E a \in Reqs : add_to_cart_save(a)
       \/ \E p \in ProductIds : admin_toggle_product_availability(p)
    /\ Bounded(MaxOrders)'

SpecAddRace == Init /\ [][NextAddRace]_vars

\* the forms a visitor posts: every combination of blank and filled fields,
\* with a date that passes and one that does not parse
VisitorForms ==
    {f \in Forms : f.delivery_date \in {<<"2", "T", "0", "0">>, <<>>}}

\* an anonymous visitor beside a shopper and the staff
NextVisitor ==
    /\ \/ CartOps({"u1"}, ProductIds)
       \/ AnonCartOps
       \/ \E m \in Methods, f \in VisitorForms : anon_checkout(m, f)
       \/ \E p \in ProductIds : admin_toggle_product_availability(p)
       \/ \E p \in ProductIds : admin_delete_product(p)
    /\ Bounded(MaxOrders)'

SpecVisitor == Init /\ [][NextVisitor]_vars

\* two workers serve the staff's settings requests
NextSettings ==
    /\ \/ \E a \in Reqs : admin_settings(a)
       \/ \E a \in Reqs : admin_site_add(a)
       \/ \E a \in Reqs : SiteSettings_save(a)
       \/ \E a \in Reqs : super_save(a)
       \/ \E n \in NoticeSpecs : save_settings(n)
       \/ Tick
    /\ Bounded(MaxOrders)'

SpecSettings == Init /\ [][NextSettings]_vars

\* the cart views under a signed-in shopper and under an anonymous visitor
NextBackings ==
    /\ \/ CartOps({"u1"}, ProductIds)
       \/ AnonCartOps
       \/ \E p \in ProductIds : admin_toggle_product_availability(p)
    /\ Bounded(MaxOrders)'

SpecBackings == Init /\ [][NextBackings]_vars

\* one shopper's cart views and checkouts
NextLines ==
    /\ \/ CartOps({"u1"}, ProductIds)
       \/ checkout_post("r1", "u1", GoodForm)
       \/ process_checkout("r1", "A", "none")
    /\ Bounded(MaxOrders)'

SpecLines == Init /\ [][NextLines]_vars

\* one shopper's checkout with storage errors, while the cart and the
\* catalogue change under it
NextCheckout ==
    /\ \/ \E p \in ProductIds : add_to_cart("u1", p)
       \/ checkout_post("r1", "u1", GoodForm)
       \/ \E x \in Faults : process_checkout("r1", "A", x)
       \/ \E p \in ProductIds : admin_delete_product(p)
    /\ Bounded(MaxOrders)'

SpecCheckout == Init /\ [][NextCheckout]_vars

\* one shopper's checkout while the staff switch products off and on
NextInactive ==
    /\ \/ \E p \in ProductIds : add_to_cart("u1", p)
       \/ \E p \in ProductIds : admin_toggle_product_availability(p)
       \/ checkout_post("r1", "u1", GoodForm)
       \/ process_checkout("r1", "A", "none")
    /\ Bounded(MaxOrders)'

SpecInactive == Init /\ [][NextInactive]_vars

\* the checkpoints of a checkout under every form, setting and time
NextValidate ==
    /\ \/ add_to_cart("u1", "p1")
       \/ \E f \in Forms : checkout_post("r1", "u1", f)
       \/ process_checkout("r1", "A", "none")
       \/ \E n \in NoticeSpecs : save_settings(n)
       \/ Tick
    /\ Bounded(MaxOrders)'

SpecValidate == Init /\ [][NextValidate]_vars

\* the lead-time setting under every kind of value
NextNotice ==
    /\ \/ add_to_cart("u1", "p1")
       \/ \E d \in NoticeDates :
             checkout_post("r1", "u1", [GoodForm EXCEPT !.delivery_date = d])
       \/ process_checkout("r1", "A", "none")
       \/ \E n \in NoticeInputs : save_settings(n)
       \/ Tick
    /\ Bounded(MaxOrders)'

SpecNotice == Init /\ [][NextNotice]_vars

\* orders under later price edits and status updates
NextPrices ==
    /\ \/ add_to_cart("u1", "p1")
       \/ checkout_post("r1", "u1", GoodForm)
       \/ \E s \in Suffixes : process_checkout("r1", s, "none")
       \/ \E o \in 1..MaxOrders, st \in {"completed", "shipped"} :
             admin_update_order_status(o, st)
       \/ \E pr \in Prices \cup {0} : admin_edit_product("p1", pr, 1, TRUE)
    /\ Bounded(MaxOrders)'

SpecPrices == Init /\ [][NextPrices]_vars

\* the status of an order under every status request
NextStatus ==
    /\ \/ add_to_cart("u1", "p1")
       \/ checkout_post("r1", "u1", GoodForm)
       \/ process_checkout("r1", "A", "none")
       \/ \E o \in 1..MaxOrders, st \in AllStatusInputs : admin_update_order_status(o, st)
       \/ \E o \in 1..MaxOrders, a \in OrderActions : order_action(o, a)
    /\ Bounded(MaxOrders)'

SpecStatus == Init /\ [][NextStatus]_vars

\* status requests where there are two orders
NextStatusFrame ==
    /\ \/ add_to_cart("u1", "p1")
       \/ checkout_post("r1", "u1", GoodForm)
       \/ \E s \in Suffixes : process_checkout("r1", s, "none")
       \/ \E o \in 1..MaxRaceOrders, st \in {"cancelled", "shipped"} :
             admin_update_order_status(o, st)
       \/ \E o \in 1..MaxRaceOrders, a \in {"mark_ready", "complete"} : order_action(o, a)
    /\ Bounded(MaxRaceOrders)'

SpecStatusFrame == Init /\ [][NextStatusFrame]_vars

\* order numbers under repeated checkouts and the order API
NextNumbers ==
    /\ \/ add_to_cart("u1", "p1")
       \/ checkout_post("r1", "u1", GoodForm)
       \/ \E s \in Suffixes : process_checkout("r1", s, "none")
       \/ \E s \in Suffixes : api_create_order(1, 24, s)
    /\ Bounded(MaxRaceOrders)'

SpecNumbers == Init /\ [][NextNumbers]_vars

\* two checkout requests of one shopper
NextRace ==
    /\ \/ add_to_cart("u1", "p1")
       \/ \E r \in Reqs : checkout_post(r, "u1", GoodForm)
       \/ \E r \in Reqs, s \in Suffixes : process_checkout(r, s, "none")
    /\ Bounded(MaxRaceOrders)'

SpecRace == Init /\ [][NextRace]_vars

\* ---------------------------------------------------------------- properties
IsCheckoutOrder(o) == o.order_number[1] = "ORD"
ItemsOf(table, oid) == SelectSeq(table, LAMBDA oi : oi.order = oid)
Blank(s) == \A i \in DOMAIN s : s[i] = " "
Completes(r) == reqs[r].pc = "posted" /\ reqs'[r].pc = "idle"

\* C1: a checkout request whose cart state another request of the same
\* user has already turned into an order creates no order.
C1_NoDoubleOrder ==
    [][\A r \in Reqs :
          (reqs[r].superseded /\ Completes(r)) => orders' = orders]_vars

C3_TotalIsSumOfItems ==
    /\ [](\A i \in DOMAIN orders :
            IsCheckoutOrder(orders[i]) =>
                LET items == ItemsOf(orderItems, orders[i].id)
                IN  orders[i].total_amount =
                        SumSeq([k \in DOMAIN items |->
                                   items[k].quantity * items[k].unit_price]))
    /\ [][/\ \A i \in DOMAIN orders :
               /\ i \in DOMAIN orders'
               /\ orders'[i].total_amount = orders[i].total_amount
               /\ orders'[i].id = orders[i].id
          /\ \A k \in DOMAIN orderItems :
               k \in DOMAIN orderItems' /\ orderItems'[k] = orderItems[k]]_vars

C3_Witness ==
    \E i \in DOMAIN orders, k \in DOMAIN orderItems :
        /\ orderItems[k].order = orders[i].id
        /\ orderItems[k].unit_price # products[orderItems[k].product].price
        /\ orderItems[k].quantity = 2
        /\ orders[i].status = "completed"

C6_AddRespectsStock ==
    [][\A u \in Users, p \in ProductIds :
          add_to_cart(u, p) =>
              \A i \in CartItemMatches(cartItems', u, p) :
                  cartItems'[i].quantity <= products[p].stock_quantity]_vars

\* C7: add_to_cart of a product that is inactive or does not exist answers
\* with a failure and leaves the cart table as it was.
C7_InactiveAddFails ==
    [][\A u \in Users, p \in ProductIds :
          (add_to_cart(u, p) /\ ~(products[p].exists /\ products[p].is_active))
              => (cartItems' = cartItems /\ ~resp'.success)]_vars

C7_Witness ==
    /\ resp.op = "add_to_cart"
    /\ ~resp.success
    /\ \E i \in DOMAIN cartItems :
          products[cartItems[i].product].exists /\ ~products[cartItems[i].product].is_active

\* C8: a user has at most one cart line per product; an add_to_cart that
\* succeeds makes a line of quantity 1 when the user had none for the product
\* and otherwise adds 1 to the quantity of the one line, and changes no
\* other line.
C8_OneLinePerProduct ==
    /\ [](\A u \in Users, p \in ProductIds :
            Cardinality(CartItemMatches(cartItems, u, p)) <= 1)
    /\ [][\A u \in Users, p \in ProductIds :
            (add_to_cart(u, p) /\ resp'.success) =>
                IF CartItemMatches(cartItems, u, p) = {}
                THEN cartItems' = Append(cartItems, [user |-> u, product |-> p, quantity |-> 1])
                ELSE /\ Len(cartItems') = Len(cartItems)
                     /\ \A i \in DOMAIN cartItems :
                          cartItems'[i] =
                             IF cartItems[i].user = u /\ cartItems[i].product = p
                             THEN [cartItems[i] EXCEPT !.quantity = cartItems[i].quantity + 1]
                             ELSE cartItems[i]]_vars

C8_Witness ==
    /\ resp = Response("add_to_cart", TRUE, "added")
    /\ Len(orders) = 1
    /\ \E i, j \in DOMAIN cartItems :
          /\ cartItems[i].product # cartItems[j].product
          /\ cartItems[i].quantity = 2

\* C9: a checkout POST answers with the first failing checkpoint: an empty
\* cart whatever the form; with lines in the cart, missing fields when one of
\* the four required fields is blank after trimming, whatever the date; with
\* no blank field, invalid date when the date does not parse.
C9_FirstFailingCheckpoint ==
    [][\A r \in Reqs :
          Completes(r) =>
              LET f == reqs[r].form
              IN  IF reqs[r].cart_items = <<>>
                  THEN resp'.outcome = "empty_cart"
                  ELSE IF \/ Blank(f.customer_name) \/ Blank(f.customer_email)
                          \/ Blank(f.customer_phone) \/ Blank(f.delivery_date)
                  THEN resp'.outcome = "missing_fields"
                  ELSE IF ~ParseDate(Strip(f.delivery_date)).ok
                  THEN resp'.outcome = "invalid_date"
                  ELSE resp'.outcome \in
                          {"insufficient_notice", "order_placed", "order_failed"}]_vars

C9_Witness ==
    /\ resp.outcome = "invalid_date"
    /\ CartOf(cartItems, "u1") # <<>>
    /\ orders = <<>>

TwoDays == <<"2", " ", "d", "a", "y", "s">>
ExpectedHours(notice) == IF notice = TwoDays THEN 48 ELSE 24

\* C10: with lines in the cart and well-formed fields, a checkout is
\* rejected for insufficient notice exactly when the delivery time is
\* earlier than now plus the notice hours; a delivery time equal to it passes.
C10_LeadTime ==
    [][\A r \in Reqs :
          LET f == reqs[r].form
          IN  (/\ Completes(r)
               /\ reqs[r].cart_items # <<>>
               /\ ~(\/ Blank(f.customer_name) \/ Blank(f.customer_email)
                    \/ Blank(f.customer_phone) \/ Blank(f.delivery_date))
               /\ ParseDate(Strip(f.delivery_date)).ok)
              => LET t == ParseDate(Strip(f.delivery_date)).t
                     earliest == clock + ExpectedHours(reqs[r].notice)
                 IN  /\ (t >= earliest) <=>
                            (resp'.outcome \in {"order_placed", "order_failed"})
                     /\ (t < earliest) <=> (resp'.outcome = "insufficient_notice")]_vars

C10_Witness ==
    /\ resp.outcome = "order_placed"
    /\ \E i \in DOMAIN orders : orders[i].delivery_date = 24

ValidationOutcomes == {"empty_cart", "missing_fields", "invalid_date", "insufficient_notice"}

\* C11: a checkout that ends at a validation checkpoint (empty cart, missing
\* fields, invalid date, insufficient notice) writes nothing: the orders, the
\* order items, the cart lines and the products are as they were.
C11_ValidationFailureWritesNothing ==
    [][\A r \in Reqs :
          (Completes(r) /\ resp'.outcome \in ValidationOutcomes) =>
              /\ ~resp'.success
              /\ orders' = orders /\ orderItems' = orderItems
              /\ cartItems' = cartItems /\ products' = products]_vars

C11_Witness ==
    /\ resp.outcome = "insufficient_notice"
    /\ \E i \in DOMAIN cartItems : cartItems[i].user = "u1" /\ cartItems[i].quantity = 2
    /\ orders = <<>> /\ orderItems = <<>>

NamedNotices == {DefaultNotice, TwoDays, <<"g", "a", "r", "b", "a", "g", "e">>, <<>>}

C13_CheckoutIgnoresStock ==
    [][\A r \in Reqs :
          Completes(r) =>
              /\ products' = products
              /\ (/\ Validate(reqs[r].cart_items, reqs[r].form, reqs[r].notice, clock) = "ok"
                  /\ orders = <<>>
                  /\ \E k \in DOMAIN reqs[r].cart_items :
                        reqs[r].cart_items[k].quantity
                            > products[reqs[r].cart_items[k].product].stock_quantity)
                 => (resp'.outcome = "order_placed" /\ Len(orders') = 1)]_vars

C13_Witness ==
    /\ resp.outcome = "order_placed"
    /\ \E k \in DOMAIN orderItems :
          /\ orderItems[k].product = "p1"
          /\ orderItems[k].quantity > products["p1"].stock_quantity
    /\ products["p1"].stock_quantity = 1

\* C14: no status request is rejected for the order's current status:
\* admin_update_order_status of an existing order with one of the six values
\* succeeds and sets it, whatever the status was; confirm, start_progress,
\* mark_ready and complete set confirmed, in_progress, ready and completed;
\* a value outside the six is rejected and the orders stay as they were.
C14_StatusWritesUnguarded ==
    [][/\ \A o \in OrderIds, st \in AllStatusInputs :
            admin_update_order_status(o, st) =>
                IF st \in {"pending", "confirmed", "in_progress", "ready",
                           "completed", "cancelled"}
                THEN resp'.success /\ StatusOf(orders', o) = st
                ELSE ~resp'.success /\ orders' = orders
       /\ \A o \in OrderIds :
            /\ order_action(o, "confirm") =>
                  (resp'.success /\ StatusOf(orders', o) = "confirmed")
            /\ order_action(o, "start_progress") =>
                  (resp'.success /\ StatusOf(orders', o) = "in_progress")
            /\ order_action(o, "mark_ready") =>
                  (resp'.success /\ StatusOf(orders', o) = "ready")
            /\ order_action(o, "complete") =>
                  (resp'.success /\ StatusOf(orders', o) = "completed")]_vars

C14_Witness ==
    /\ resp = Response("admin_update_order_status", TRUE, "pending")
    /\ Len(orders) = 1
    /\ orders[1].status = "pending"
    /\ orders[1].total_amount = 2

CartOpNames == {"add_to_cart", "update_cart_quantity", "remove_from_cart"}

\* C17: a cart request that answers with a failure leaves the cart lines and
\* the products as they were.
C17_FailedCartOpChangesNothing ==
    [][(resp'.op \in CartOpNames /\ ~resp'.success)
          => (cartItems' = cartItems /\ products' = products)]_vars

\* C18: an update_cart_quantity whose change brings the quantity of a line
\* to zero or below leaves the cart table as remove_from_cart of that line
\* leaves it: the line is gone and every other line is as it was.
C18_UpdateToZeroIsRemove ==
    [][\A u \in Users, p \in ProductIds, b \in BodyInputs :
          (/\ resp'.op = "update_cart_quantity"
           /\ b.valid /\ products[p].exists
           /\ \E i \in DOMAIN cartItems :
                 /\ cartItems[i].user = u /\ cartItems[i].product = p
                 /\ cartItems[i].quantity + b.change <= 0
           /\ update_cart_quantity(u, p, b))
          => /\ cartItems' = CartItemDelete(cartItems, u, p)
             /\ \A i \in DOMAIN cartItems' :
                   ~(cartItems'[i].user = u /\ cartItems'[i].product = p)
             /\ Len(cartItems') = Len(cartItems) - 1]_vars

C18_Witness ==
    /\ resp = Response("update_cart_quantity", TRUE, "updated")
    /\ CartOf(cartItems, "u1") = <<>>
    /\ Len(orders) = 1

\* C19: an update_cart_quantity that is accepted (well-formed body, line
\* found, new quantity within the stock) and leaves a line in the user's
\* cart answers with success.
C19_UpdateReportsTotals ==
    [][\A u \in Users, p \in ProductIds, b \in BodyInputs :
          (/\ resp'.op = "update_cart_quantity"
           /\ b.valid /\ products[p].exists
           /\ \E i \in DOMAIN cartItems :
                 /\ cartItems[i].user = u /\ cartItems[i].product = p
                 /\ cartItems[i].quantity + b.change <= products[p].stock_quantity
           /\ CartOf(cartItems', u) # <<>>
           /\ update_cart_quantity(u, p, b))
          => resp'.success]_vars

\* C20: a cart request of the anonymous visitor does to the session map what
\* the same request of a signed-in shopper does to the shopper's lines: an add
\* of an active product succeeds and makes the quantity one higher (1 from no
\* entry), and a remove succeeds exactly for a product that has an entry,
\* which it deletes.
C20_BackingsAgree ==
    [][\A p \in ProductIds :
          /\ (anon_add_to_cart(p) /\ products[p].exists /\ products[p].is_active)
                => (resp'.success /\ session' = [session EXCEPT ![p] = session[p] + 1])
          /\ anon_remove_from_cart(p)
                => /\ resp'.success <=> (products[p].exists /\ session[p] > 0)
                   /\ session' = [session EXCEPT ![p] = 0]]_vars

\* the rows a step appends to the OrderItem table
NewItems == SubSeq(orderItems', Len(orderItems) + 1, Len(orderItems'))

\* C21: a product that is not active cannot be ordered: every item of an
\* order placed by a checkout is for a product whose is_active flag is true
\* when the order is created.
C21_InactiveNotOrdered ==
    [][\A r \in Reqs :
          (Completes(r) /\ resp'.outcome = "order_placed") =>
              \A k \in DOMAIN NewItems :
                  /\ products[NewItems[k].product].exists
                  /\ products[NewItems[k].product].is_active]_vars

\* C22: the items of an order leave the OrderItem table only with their
\* order: a step that keeps an order keeps each of its items as it was, a
\* deletion of the item's product included.
C22_ItemsLeaveWithOrder ==
    [][\A k \in DOMAIN orderItems :
          (\E i \in DOMAIN orders' : orders'[i].id = orderItems[k].order) =>
              \E j \in DOMAIN orderItems' : orderItems'[j] = orderItems[k]]_vars

\* C24: an order carries the prices of the moment its transaction runs:
\* each item's unit_price is the product's price at that moment and
\* total_amount is the sum of quantity * that price, also when the price was
\* edited after the request read the cart.
C24_PriceAtTransaction ==
    [][\A r \in Reqs :
          (Completes(r) /\ resp'.outcome = "order_placed") =>
              /\ \A k \in DOMAIN NewItems :
                    NewItems[k].unit_price = products[NewItems[k].product].price
              /\ orders'[Len(orders')].total_amount =
                    SumSeq([k \in DOMAIN NewItems |->
                              NewItems[k].quantity * products[NewItems[k].product].price])]_vars

\* C27: every cart line that a successful checkout deletes is in the order
\* with the quantity it had when it was deleted, a line added or changed
\* after the request read the cart included.
C27_DeletedLinesAreOrdered ==
    [][\A r \in Reqs :
          (Completes(r) /\ resp'.outcome = "order_placed") =>
              \A i \in DOMAIN cartItems :
                  (/\ cartItems[i].user = reqs[r].user
                   /\ \A j \in DOMAIN cartItems' : cartItems'[j] # cartItems[i]) =>
                      \E k \in DOMAIN NewItems :
                          /\ NewItems[k].product = cartItems[i].product
                          /\ NewItems[k].quantity = cartItems[i].quantity]_vars

\* the first run of digits of s, <<>> when s has no digit
FirstInteger(s) ==
    LET ds == {i \in DOMAIN s : IsDigit(s[i])}
    IN  IF ds = {} THEN <<>>
        ELSE LET a == CHOOSE i \in ds : \A j \in ds : i <= j
                 b == CHOOSE i \in ds :
                        /\ i >= a
                        /\ \A j \in a..i : j \in ds
                        /\ (i + 1) \notin ds
             IN  SubSeq(s, a, b)

\* the hours of a notice text by the rule of the first integer
FirstIntegerHours(notice) ==
    LET notice_text == Lower(notice)
        d == FirstInteger(notice_text)
    IN  IF d = <<>> THEN DefaultNoticeHours
        ELSE IF Contains(DAY, notice_text) THEN ToInt(d) * 24
        ELSE IF Contains(HOUR, notice_text) THEN ToInt(d)
        ELSE DefaultNoticeHours

\* C23: the notice hours of a checkout are those of the first integer in
\* the setting: times 24 when the text has a day unit, as hours otherwise,
\* and the default of 24 when the text has no number or no unit; "2 to 3
\* days" is 48 hours and "1 day 12 hours" is one day.
C23_FirstInteger ==
    \A r \in Reqs :
        reqs[r].pc = "posted" =>
            NoticeHours(reqs[r].notice) = FirstIntegerHours(reqs[r].notice)

\* the quantity of the line of u for p
QuantityOf(table, u, p) ==
    table[CHOOSE j \in CartItemMatches(table, u, p) : TRUE].quantity

\* an update request that reaches the stock test: a readable body, an
\* existing product and an existing line
ReachesStockTest(u, p, b) ==
    /\ resp'.op = "update_cart_quantity"
    /\ b.valid
    /\ ProductFound(p)
    /\ CartItemMatches(cartItems, u, p) # {}
    /\ update_cart_quantity(u, p, b)

\* C25, as stated: a change whose result would exceed the stock is rejected
\* with the quantity unchanged, an accepted change leaves the line between 1
\* and the stock, and a decrement is always accepted.
C25_DecrementAlwaysAccepted ==
    [][\A u \in Users, p \in ProductIds, b \in BodyInputs :
          ReachesStockTest(u, p, b) =>
              LET q == QuantityOf(cartItems, u, p)
              IN  /\ (q + b.change > products[p].stock_quantity) =>
                        (cartItems' = cartItems /\ resp'.outcome = "not_enough_stock")
                  /\ (cartItems' # cartItems /\ CartItemMatches(cartItems', u, p) # {}) =>
                        /\ QuantityOf(cartItems', u, p) >= 1
                        /\ QuantityOf(cartItems', u, p) <= products[p].stock_quantity
                  /\ (b.change < 0) =>
                        \/ CartItemMatches(cartItems', u, p) = {}
                        \/ QuantityOf(cartItems', u, p) < q]_vars

\* C25, amended: a change whose result would exceed the stock is rejected
\* with the quantity unchanged, a decrement of a line that stays above the
\* stock included; every other change is applied: it removes the line when
\* the result is 0 or less and otherwise leaves it at the result, which is
\* between 1 and the stock.
C25_StockCeiling ==
    [][\A u \in Users, p \in ProductIds, b \in BodyInputs :
          ReachesStockTest(u, p, b) =>
              LET q == QuantityOf(cartItems, u, p)
                  n == q + b.change
              IN  IF n > products[p].stock_quantity
                  THEN cartItems' = cartItems /\ resp'.outcome = "not_enough_stock"
                  ELSE IF n <= 0
                  THEN /\ CartItemMatches(cartItems', u, p) = {}
                       /\ Len(cartItems') = Len(cartItems) - 1
                  ELSE /\ QuantityOf(cartItems', u, p) = n
                       /\ n >= 1 /\ n <= products[p].stock_quantity
                       /\ Len(cartItems') = Len(cartItems)]_vars

\* a decrement was rejected because the line stays above the stock
C25_Witness ==
    /\ resp = Response("update_cart_quantity", FALSE, "not_enough_stock")
    /\ CartItemMatches(cartItems, "u1", "p2") # {}
    /\ QuantityOf(cartItems, "u1", "p2") = 2
    /\ products["p2"].stock_quantity = 0

\* request a of an add to cart ends with this step, having written
AddEnds(a) ==
    /\ resp' = Response("add_to_cart", TRUE, "added")
    /\ procs'[a].pc = "idle"
    /\ \/ add_to_cart_save(a)
       \/ /\ cartItems' # cartItems
          /\ \E p \in ProductIds : add_to_cart_read(a, "u1", p)

\* C26: no cart ever holds two lines of one user for one product, and when
\* two add requests of a user for a product run one after the other or
\* interleaved, each leaves exactly one line, at a quantity of at least the
\* old quantity + 1 and at most the old quantity + 2, the old quantity being
\* that of the line when the first of the two started (0: no line); a
\* request that runs alone leaves the old quantity + 1.
C26_TwoAddsOneLine ==
    /\ [](\A u \in Users, p \in ProductIds :
             Cardinality(CartItemMatches(cartItems, u, p)) <= 1)
    /\ [][\A a \in Reqs :
             AddEnds(a) =>
                 LET rec == procs'[a]
                     m == CartItemMatches(cartItems', rec.user, rec.product)
                 IN  /\ Cardinality(m) = 1
                     /\ rec.n = 1 => QuantityOf(cartItems', rec.user, rec.product) = rec.old + 1
                     /\ rec.n = 2 =>
                           QuantityOf(cartItems', rec.user, rec.product)
                               \in {rec.old + 1, rec.old + 2}]_vars

\* two requests read the line at quantity 1 and both have saved: one line,
\* quantity 2
C26_Witness ==
    /\ \A a \in Reqs :
          procs[a] = [pc |-> "idle", user |-> "u1", product |-> "p1", quantity |-> 1,
                      old |-> 1, n |-> 2]
    /\ cartItems = <<[user |-> "u1", product |-> "p1", quantity |-> 2]>>

C29_AlwaysNotFoundInCart ==
    /\ [](\A p \in ProductIds : session[p] = 0)
    /\ [][\A p \in ProductIds :
             (resp'.op = "remove_from_cart" /\ anon_remove_from_cart(p)) =>
                 /\ resp' = Response("remove_from_cart", FALSE, "not_in_cart")
                 /\ db' = db]_vars

\* C29, amended: the session cart is empty in every reachable state, and an
\* anonymous remove_from_cart changes nothing and fails: with 'Item not found
\* in cart' for a product that exists, with the message of the 404 for one
\* that does not.
C29_SessionCartEmpty ==
    /\ [](\A p \in ProductIds : session[p] = 0)
    /\ [][\A p \in ProductIds :
             (resp'.op = "remove_from_cart" /\ anon_remove_from_cart(p)) =>
                 /\ resp' = Response("remove_from_cart", FALSE,
                                     IF products[p].exists THEN "not_in_cart" ELSE "error")
                 /\ db' = db]_vars

\* the visitor's remove was answered with 'Item not found in cart' for a
\* product that a shopper has in the cart
C29_Witness ==
    /\ resp = Response("remove_from_cart", FALSE, "not_in_cart")
    /\ \E i \in DOMAIN cartItems : cartItems[i].quantity = 2
    /\ \A p \in ProductIds : products[p].exists

\* C30: the SiteSettings table never holds more than one row, and the save
\* of a new SiteSettings stores a row only when the table is empty, also
\* when two creations run at the same time.
C30_OneSiteSettings ==
    /\ [](settingsRows <= 1)
    /\ [][\A a \in Reqs :
             (procs[a].pc = "inserting" /\ super_save(a)) =>
                 (settingsRows = 0 /\ settingsRows' = 1)]_vars
====
